---- MODULE Spec2Model ----
(***************************************************************************)
(* A model of the LPK loading code of the repository:                      *)
(*   - the first LPKLoader class of lpk-loader.js (load, detectFormat,     *)
(*     parseZIPLPK, parseJSONLPK, parseBinaryLPK),                         *)
(*   - the second LPKLoader class of lpk-loader.js (loadLPK,               *)
(*     loadZipContents, parseAssets) with its loadedAssets field,          *)
(*   - the local-file-header scan loop of the LPK analysis script.         *)
(* Bytes are integers 0..255, a buffer is a sequence of bytes, a string is *)
(* a sequence of code points.  JS offsets are 0-based; sequences here are  *)
(* 1-based, so byte k of a buffer b is b[k+1].                             *)
(***************************************************************************)
EXTENDS Integers, Sequences, FiniteSets, TLC

VARIABLES
    \* first LPKLoader class: one load() call
    buffer,        \* the ArrayBuffer handed to detectFormat and the parsers
    jszip,         \* whether the global JSZip is defined
    archive,       \* what JSZip's loadAsync yields for the buffer
    pc,            \* position of the load() call
    format,        \* the tag detectFormat returned
    result,        \* the value load() resolved with
    \* LPK analysis script: the scan loop
    zipData,       \* lpkData.slice(8)
    offset,        \* the scan cursor
    files,         \* the entries found so far
    scanPc,        \* position of the script
    headersAt,     \* history: cursor positions where an entry was recognised
    examined,      \* history: the cursor position of every round of the loop
    \* second LPKLoader class: loadLPK calls on one loader object
    loadedAssets,  \* this.loadedAssets
    calls,         \* the loadLPK calls: position and locals of each
    returned,      \* per call: what the returned object held at return time
    \* a method called on its own: parseMetaFile, getAsset
    callee,        \* the method called
    args,          \* its arguments
    retval,        \* what it returned
    \* the cube game
    cubes,         \* Game.cubes: each cube's identity, alive and clickable
    score,         \* Game.score
    mouse,         \* Game.mouse: isDown, lastX, lastY
    timers,        \* the setTimeout callbacks of destroyCube not yet run
    nextId,        \* history: the identity of the next cube constructed
    destroyed,     \* history: the cubes destroyed since the last reset
    scored,        \* history: per cube, how often it added 10 to the score
    pressAt,       \* history: where the last mousedown happened
    lastUp         \* history: what the last mouseup on the canvas did

vars1 == <<buffer, jszip, archive, pc, format, result>>
varsScan == <<zipData, offset, files, scanPc, headersAt, examined>>
vars2 == <<loadedAssets, calls, returned>>
varsCall == <<callee, args, retval>>
varsGame == <<cubes, score, mouse, timers, nextId, destroyed, scored,
              pressAt, lastUp>>
varsRest == <<varsCall, varsGame>>
vars == <<buffer, jszip, archive, pc, format, result,
          zipData, offset, files, scanPc, headersAt, examined,
          loadedAssets, calls, returned,
          callee, args, retval,
          cubes, score, mouse, timers, nextId, destroyed, scored,
          pressAt, lastUp>>

\* No method has been called on its own.
IdleCallee ==
    /\ callee = "none"
    /\ args = <<>>
    /\ retval = <<>>

\* No page with the cube game is open.
NoPoint == [x |-> 0, y |-> 0]
NoUp == [handled |-> FALSE, far |-> FALSE]
IdleGame ==
    /\ cubes = <<>>
    /\ score = 0
    /\ mouse = [isDown |-> FALSE, lastX |-> 0, lastY |-> 0]
    /\ timers = 0
    /\ nextId = 0
    /\ destroyed = {}
    /\ scored = <<>>
    /\ pressAt = NoPoint
    /\ lastUp = NoUp

IdleRest == IdleCallee /\ IdleGame

(***************************************************************************)
(* Bytes, buffers and typed-array reads                                    *)
(***************************************************************************)

Min(a, b) == IF a < b THEN a ELSE b
Max(a, b) == IF a > b THEN a ELSE b

RECURSIVE Concat(_)
Concat(ss) == IF ss = <<>> THEN <<>> ELSE Head(ss) \o Concat(Tail(ss))

RECURSIVE Repeat(_, _)
Repeat(x, n) == IF n <= 0 THEN <<>> ELSE <<x>> \o Repeat(x, n - 1)

\* ArrayBuffer.prototype.slice(begin, end) / Buffer.prototype.slice: both
\* ends are clamped to [0, byteLength]; an empty range gives an empty buffer.
Slice(b, begin, end) ==
    LET lo == Min(Max(begin, 0), Len(b))
        hi == Min(Max(end, 0), Len(b))
    IN  IF hi <= lo THEN <<>> ELSE SubSeq(b, lo + 1, hi)

\* uint8Array[i]: the byte, or -1 for undefined when i is out of range.
ByteAt(b, i) == IF i >= 0 /\ i < Len(b) THEN b[i + 1] ELSE -1

\* DataView.getUint16/getUint32 (littleEndian = true) throw a RangeError when
\* the read runs past the end of the buffer: InRange is that test.
InRange(b, off, n) == off >= 0 /\ off + n <= Len(b)
Uint16LE(b, off) == b[off + 1] + 256 * b[off + 2]
Uint32LE(b, off) ==
    b[off + 1] + 256 * b[off + 2] + 65536 * b[off + 3] + 16777216 * b[off + 4]

\* The little-endian encodings, used to build input buffers.
U16(n) == <<n % 256, (n \div 256) % 256>>
U32(n) == <<n % 256, (n \div 256) % 256, (n \div 65536) % 256,
            (n \div 16777216) % 256>>

(***************************************************************************)
(* Text: TextDecoder('utf-8'), String.prototype.trim, startsWith           *)
(***************************************************************************)

Utf8Start == [needed |-> 0, seen |-> 0, cp |-> 0, lo |-> 128, hi |-> 191]

\* The UTF-8 decoder of the platform (non-fatal): a malformed sequence gives
\* U+FFFD (65533) and the offending byte is decoded again as a first byte.
RECURSIVE Utf8Decode(_, _, _, _)
Utf8Decode(b, i, st, out) ==
    IF i > Len(b)
    THEN IF st.needed # 0 THEN Append(out, 65533) ELSE out
    ELSE LET x == b[i] IN
         IF st.needed = 0
         THEN IF x <= 127
              THEN Utf8Decode(b, i + 1, Utf8Start, Append(out, x))
              ELSE IF x >= 194 /\ x <= 223
              THEN Utf8Decode(b, i + 1,
                     [needed |-> 1, seen |-> 0, cp |-> x % 32,
                      lo |-> 128, hi |-> 191], out)
              ELSE IF x >= 224 /\ x <= 239
              THEN Utf8Decode(b, i + 1,
                     [needed |-> 2, seen |-> 0, cp |-> x % 16,
                      lo |-> IF x = 224 THEN 160 ELSE 128,
                      hi |-> IF x = 237 THEN 159 ELSE 191], out)
              ELSE IF x >= 240 /\ x <= 244
              THEN Utf8Decode(b, i + 1,
                     [needed |-> 3, seen |-> 0, cp |-> x % 8,
                      lo |-> IF x = 240 THEN 144 ELSE 128,
                      hi |-> IF x = 244 THEN 143 ELSE 191], out)
              ELSE Utf8Decode(b, i + 1, Utf8Start, Append(out, 65533))
         ELSE IF x < st.lo \/ x > st.hi
              THEN Utf8Decode(b, i, Utf8Start, Append(out, 65533))
              ELSE LET cp == st.cp * 64 + (x % 64)
                       seen == st.seen + 1
                   IN  IF seen = st.needed
                       THEN Utf8Decode(b, i + 1, Utf8Start, Append(out, cp))
                       ELSE Utf8Decode(b, i + 1,
                              [needed |-> st.needed, seen |-> seen, cp |-> cp,
                               lo |-> 128, hi |-> 191], out)

\* Buffer.prototype.toString(): UTF-8 decoding that keeps a leading U+FEFF.
BufferToString(b) == Utf8Decode(b, 1, Utf8Start, <<>>)

\* new TextDecoder().decode(bytes): UTF-8 decoding; a leading byte order mark
\* is dropped (ignoreBOM is false).
TextDecode(b) ==
    LET s == Utf8Decode(b, 1, Utf8Start, <<>>)
    IN  IF Len(s) >= 1 /\ s[1] = 65279 THEN Tail(s) ELSE s

\* The code points String.prototype.trim removes (WhiteSpace and
\* LineTerminator of ECMAScript).
WhiteSpace ==
    {9, 10, 11, 12, 13, 32, 160, 5760, 8232, 8233, 8239, 8287, 12288, 65279}
        \cup (8192 .. 8202)

RECURSIVE TrimStart(_)
TrimStart(s) ==
    IF s # <<>> /\ Head(s) \in WhiteSpace THEN TrimStart(Tail(s)) ELSE s

RECURSIVE TrimEnd(_)
TrimEnd(s) ==
    IF s # <<>> /\ s[Len(s)] \in WhiteSpace
    THEN TrimEnd(SubSeq(s, 1, Len(s) - 1)) ELSE s

Trim(s) == TrimEnd(TrimStart(s))

\* s.startsWith(c) for a one-character string c.
StartsWith(s, c) == s # <<>> /\ s[1] = c

\* String.prototype.toLowerCase on the code points A..Z; the names of the
\* model hold no other cased letters.
RECURSIVE ToLowerCase(_)
ToLowerCase(s) ==
    IF s = <<>> THEN <<>>
    ELSE <<IF Head(s) >= 65 /\ Head(s) <= 90 THEN Head(s) + 32 ELSE Head(s)>>
         \o ToLowerCase(Tail(s))

\* name.split('.').pop(): the text after the last '.', the whole name when
\* it holds no '.'.
RECURSIVE SplitDotPop(_)
SplitDotPop(s) ==
    IF \E i \in 1 .. Len(s) : s[i] = 46
    THEN SplitDotPop(Tail(s))
    ELSE s

(***************************************************************************)
(* First LPKLoader class: detectFormat                                     *)
(***************************************************************************)

\* detectFormat with a read that throws on a buffer shorter than two bytes.
detectFormatThrowsOnShort(buf) ==
    IF Len(buf) < 2 THEN "threw"
    ELSE IF buf[1] = 80 /\ buf[2] = 75 THEN "zip" ELSE "binary"

\* detectFormat with the text of the whole buffer decoded, not of its first
\* 10 bytes.
detectFormatWholeText(buf) ==
    IF ByteAt(buf, 0) = 80 /\ ByteAt(buf, 1) = 75
    THEN "zip"
    ELSE LET start == TextDecode(buf) IN
         IF StartsWith(Trim(start), 123) \/ StartsWith(Trim(start), 91)
         THEN "json"
         ELSE "binary"

\* detectFormat(arrayBuffer): 'zip' | 'json' | 'binary'.  "threw" stands for
\* an exception; the code has no statement that can raise one.
detectFormat(buf) ==
    IF ByteAt(buf, 0) = 80 /\ ByteAt(buf, 1) = 75
    THEN "zip"
    ELSE LET start == TextDecode(Slice(buf, 0, 10)) IN
         IF StartsWith(Trim(start), 123) \/ StartsWith(Trim(start), 91)
         THEN "json"
         ELSE "binary"

(***************************************************************************)
(* First LPKLoader class: the outcome of a parse call                      *)
(***************************************************************************)

\* The promise of an async method rejects: the call "throws".
Thrown(method, error) == [status |-> "thrown", by |-> method, error |-> error]

\* An object with no own keys, as in `assets: {}` and `metadata: {}`.
EmptyMap == [k \in {} |-> <<>>]

\* obj[key] = value on a map.
PutKey(map, key, value) ==
    [k \in (DOMAIN map) \cup {key} |-> IF k = key THEN value ELSE map[k]]

\* A property name that is an array index: the canonical decimal string of
\* an integer from 0 to 2^32 - 2 (digits only, no leading zero).
MaxArrayIndex == <<52, 50, 57, 52, 57, 54, 55, 50, 57, 52>>   \* '4294967294'

\* a < b for two strings of digits of equal length.
RECURSIVE DigitsLess(_, _)
DigitsLess(a, b) ==
    IF a = <<>> THEN FALSE
    ELSE IF Head(a) # Head(b) THEN Head(a) < Head(b)
    ELSE DigitsLess(Tail(a), Tail(b))

\* a < b as numbers, for two canonical decimal strings.
IndexLess(a, b) ==
    \/ Len(a) < Len(b)
    \/ Len(a) = Len(b) /\ DigitsLess(a, b)

IsArrayIndex(key) ==
    /\ Len(key) >= 1
    /\ \A k \in 1 .. Len(key) : key[k] >= 48 /\ key[k] <= 57
    /\ Len(key) = 1 \/ key[1] # 48
    /\ ~IndexLess(MaxArrayIndex, key)

\* The own keys of an object, in the order Object.keys and for-in give
\* them, after obj[key] = value: a key the object has keeps its place; a
\* new array index goes among the array indices in ascending numeric
\* order, which come first; any other new key goes last.
OwnKeysPut(keys, key) ==
    IF \E k \in 1 .. Len(keys) : keys[k] = key THEN keys
    ELSE IF ~IsArrayIndex(key) THEN Append(keys, key)
    ELSE LET before == Cardinality({k \in 1 .. Len(keys) :
                                      /\ IsArrayIndex(keys[k])
                                      /\ IndexLess(keys[k], key)})
         IN  SubSeq(keys, 1, before) \o <<key>>
               \o SubSeq(keys, before + 1, Len(keys))

\* The result object literal of parseZIPLPK and parseBinaryLPK.  models and
\* textures are created by the first push (an absent list is the empty
\* sequence); hasData tells whether result.assets.data has been assigned,
\* dataKeys holds its own keys in enumeration order.
NewResult(method, fmt, version) ==
    [status |-> "returned", by |-> method, format |-> fmt, version |-> version,
     models |-> <<>>, textures |-> <<>>, hasData |-> FALSE, data |-> EmptyMap,
     dataKeys |-> <<>>, metadata |-> EmptyMap]

\* The extension lists of the two categorising loops, as code points.
ModelExts ==
    { <<103, 108, 116, 102>>,      \* gltf
      <<103, 108, 98>>,            \* glb
      <<111, 98, 106>>,            \* obj
      <<102, 98, 120>> }           \* fbx
TextureExts ==
    { <<112, 110, 103>>,           \* png
      <<106, 112, 103>>,           \* jpg
      <<106, 112, 101, 103>>,      \* jpeg
      <<119, 101, 98, 112>>,       \* webp
      <<103, 105, 102>> }          \* gif
JsonExt == <<106, 115, 111, 110>>  \* json

\* const ext = name.split('.').pop().toLowerCase()
ExtOf(name) == ToLowerCase(SplitDotPop(name))

(***************************************************************************)
(* First LPKLoader class: parseBinaryLPK                                   *)
(***************************************************************************)

LPKMagic == <<76, 80, 75, 0>>      \* 'LPK\0'

\* The asset-table loop that ends at the first row it cannot read and keeps
\* the rows read before it.
RECURSIVE readAssetTableLenient(_, _, _, _)
readAssetTableLenient(buf, off, remaining, assets) ==
    IF remaining = 0 THEN [ok |-> TRUE, assets |-> assets, end |-> off]
    ELSE IF ~InRange(buf, off, 2) THEN [ok |-> TRUE, assets |-> assets, end |-> off]
    ELSE LET nameLength == Uint16LE(buf, off)
             typeOff == off + 2 + nameLength
         IN  IF ~InRange(buf, off + 2, nameLength + 12)
             THEN [ok |-> TRUE, assets |-> assets, end |-> off]
             ELSE readAssetTableLenient(buf, typeOff + 12, remaining - 1,
                    Append(assets,
                      [name |-> TextDecode(Slice(buf, off + 2, typeOff)),
                       type |-> Uint32LE(buf, typeOff),
                       size |-> Uint32LE(buf, typeOff + 4),
                       dataOffset |-> Uint32LE(buf, typeOff + 8)]))

\* The asset-table loop: each row is nameLength (uint16), the name, type,
\* size and dataOffset (uint32 each); a read past the end of the buffer
\* throws a RangeError and ends the call.
RECURSIVE readAssetTable(_, _, _, _)
readAssetTable(buf, off, remaining, assets) ==
    IF remaining = 0 THEN [ok |-> TRUE, assets |-> assets, end |-> off]
    ELSE IF ~InRange(buf, off, 2) THEN [ok |-> FALSE]
    ELSE LET nameLength == Uint16LE(buf, off)
             nameOff == off + 2
             typeOff == nameOff + nameLength
         IN  IF ~InRange(buf, nameOff, nameLength) THEN [ok |-> FALSE]
             ELSE IF ~InRange(buf, typeOff, 4) THEN [ok |-> FALSE]
             ELSE IF ~InRange(buf, typeOff + 4, 4) THEN [ok |-> FALSE]
             ELSE IF ~InRange(buf, typeOff + 8, 4) THEN [ok |-> FALSE]
             ELSE readAssetTable(buf, typeOff + 12, remaining - 1,
                    Append(assets,
                      [name |-> TextDecode(Slice(buf, nameOff, typeOff)),
                       type |-> Uint32LE(buf, typeOff),
                       size |-> Uint32LE(buf, typeOff + 4),
                       dataOffset |-> Uint32LE(buf, typeOff + 8)]))

\* The slice with its second argument taken for a length.
sliceAssetAsLength(buf, asset) == Slice(buf, asset.dataOffset, asset.size)

\* const assetData = arrayBuffer.slice(asset.dataOffset, asset.dataOffset + asset.size)
sliceAsset(buf, asset) ==
    Slice(buf, asset.dataOffset, asset.dataOffset + asset.size)

\* One round of the extraction loop: slice the asset's bytes and file them
\* under models, textures or the data map.
extractAsset(buf, asset, res) ==
    LET assetData == sliceAsset(buf, asset)
        ext == ExtOf(asset.name)
        entry == [filename |-> asset.name, data |-> assetData, type |-> ext]
    IN  IF ext \in ModelExts
        THEN [res EXCEPT !.models = Append(@, entry)]
        ELSE IF ext \in TextureExts
        THEN [res EXCEPT !.textures = Append(@, entry)]
        ELSE [res EXCEPT !.hasData = TRUE,
                         !.data = PutKey(@, asset.name, assetData),
                         !.dataKeys = OwnKeysPut(@, asset.name)]

RECURSIVE extractAssets(_, _, _)
extractAssets(buf, assets, res) ==
    IF assets = <<>> THEN res
    ELSE extractAssets(buf, Tail(assets), extractAsset(buf, Head(assets), res))

\* The header fields always read from offset 0.
headerOffsetAlwaysZero(buf) == 0

\* The header fields always read behind the first four bytes.
headerOffsetNoRestart(buf) == 4

\* Where the header fields are read: behind the magic when it matches, from
\* offset 0 when it does not.
headerOffset(buf) == IF Slice(buf, 0, 4) = LPKMagic THEN 4 ELSE 0

\* parseBinaryLPK(arrayBuffer)
parseBinaryLPK(buf) ==
    IF ~InRange(buf, 0, 4)
    THEN Thrown("parseBinaryLPK", "RangeError")   \* new Uint8Array(buf, 0, 4)
    ELSE LET off == headerOffset(buf) IN
         IF ~InRange(buf, off, 4)
         THEN Thrown("parseBinaryLPK", "RangeError")      \* version
         ELSE IF ~InRange(buf, off + 4, 4)
         THEN Thrown("parseBinaryLPK", "RangeError")      \* assetCount
         ELSE LET version == Uint32LE(buf, off)
                  assetCount == Uint32LE(buf, off + 4)
                  table == readAssetTable(buf, off + 8, assetCount, <<>>)
              IN  IF ~table.ok
                  THEN Thrown("parseBinaryLPK", "RangeError")
                  ELSE extractAssets(buf, table.assets,
                         NewResult("parseBinaryLPK", "binary", version))

(***************************************************************************)
(* First LPKLoader class: parseZIPLPK                                      *)
(*                                                                         *)
(* JSZip is a library outside the repository.  What it makes of a buffer   *)
(* is the `archive` input: [ok |-> FALSE] when loadAsync rejects, else the *)
(* entries of zipFile.files in key order, each with                        *)
(*   name     the key,                                                     *)
(*   dir      file.dir,                                                    *)
(*   readable whether file.async(...) resolves,                            *)
(*   json     whether JSON.parse accepts the entry's text,                 *)
(*   data     the entry's bytes.                                           *)
(***************************************************************************)

ManifestName ==                    \* 'manifest.json'
    <<109, 97, 110, 105, 102, 101, 115, 116, 46, 106, 115, 111, 110>>

\* JSON.parse(text) of an entry: the parsed value, named by the bytes it was
\* parsed from.
JSONValue(file) == [json |-> file.data]

\* The `for (const [filename, file] of Object.entries(zipFile.files))` loop.
\* res.hasData is never set on this path: result.assets is `{}` and nothing
\* assigns result.assets.data, so the store into it raises a TypeError.
RECURSIVE zipLoop(_, _)
zipLoop(fs, res) ==
    IF fs = <<>> THEN res
    ELSE LET file == Head(fs)
             ext == ExtOf(file.name)
             entry == [filename |-> file.name, data |-> file.data, type |-> ext]
         IN  IF file.dir THEN zipLoop(Tail(fs), res)
             ELSE IF ~file.readable
             THEN Thrown("parseZIPLPK", "async rejected")
             ELSE IF ext \in ModelExts
             THEN zipLoop(Tail(fs), [res EXCEPT !.models = Append(@, entry)])
             ELSE IF ext \in TextureExts
             THEN zipLoop(Tail(fs), [res EXCEPT !.textures = Append(@, entry)])
             ELSE IF ext = JsonExt
             THEN IF ~file.json
                  THEN Thrown("parseZIPLPK", "SyntaxError")
                  ELSE IF ~res.hasData
                  THEN Thrown("parseZIPLPK", "TypeError")
                  ELSE zipLoop(Tail(fs),
                         [res EXCEPT !.data = PutKey(@, file.name, JSONValue(file))])
             ELSE zipLoop(Tail(fs), res)

\* parseZIPLPK(arrayBuffer)
parseZIPLPK(ar, hasJSZip) ==
    IF ~hasJSZip THEN Thrown("parseZIPLPK", "JSZip library required")
    ELSE IF ~ar.ok THEN Thrown("parseZIPLPK", "loadAsync rejected")
    ELSE LET manifests == {i \in 1 .. Len(ar.files) : ar.files[i].name = ManifestName}
             fresh == NewResult("parseZIPLPK", "zip", 0)
         IN  IF manifests = {} THEN zipLoop(ar.files, fresh)
             ELSE LET m == ar.files[CHOOSE i \in manifests : TRUE] IN
                  IF ~m.readable THEN Thrown("parseZIPLPK", "async rejected")
                  ELSE IF ~m.json THEN Thrown("parseZIPLPK", "SyntaxError")
                  ELSE zipLoop(ar.files, [fresh EXCEPT !.metadata = JSONValue(m)])

(***************************************************************************)
(* Inputs of the first LPKLoader class                                     *)
(***************************************************************************)

MaxSniffLen == 2      \* every buffer of at most this many SniffBytes
MaxRows == 2          \* rows of a generated asset table
MaxFiles == 2         \* entries of a generated archive

SeqsUpTo(S, n) == UNION {[1 .. k -> S] : k \in 0 .. n}

Prefixes(b) == {SubSeq(b, 1, n) : n \in 0 .. Len(b)}

\* 'P' 'K' ' ' '{' '[' 'A' NUL and the two bytes of U+00A0.
SniffBytes == {80, 75, 32, 123, 91, 65, 0, 194, 160}

\* The header the analysis report gives for an LPK file (b8 fb 46 7e), here
\* with four zero bytes, before the embedded archive.
LPKHeader == <<184, 251, 70, 126, 0, 0, 0, 0>>
ZipSignature == <<80, 75, 3, 4>>

SniffInputs ==
    SeqsUpTo(SniffBytes, MaxSniffLen)
    \cup { Repeat(32, 9) \o <<123>>,            \* '{' is the 10th byte
           Repeat(32, 10) \o <<123>>,           \* '{' is the 11th byte
           <<239, 187, 191, 123, 125>>,         \* byte order mark, then {}
           <<194, 160, 91, 93>>,                \* U+00A0, then []
           <<65, 32, 123>>,                     \* 'A {'
           LPKHeader \o ZipSignature \o Repeat(0, 26),
           ZipSignature }

NameXPNG == <<120, 46, 80, 78, 71>>             \* 'x.PNG'
NamePng  == <<112, 110, 103>>                   \* 'png'
NameX    == <<120>>                             \* 'x'
NameObj  == <<109, 46, 111, 98, 106>>           \* 'm.obj'
NameJson == <<100, 46, 106, 115, 111, 110>>     \* 'd.json'
NameDir  == <<109, 47>>                         \* 'm/'

DataBytes == <<11, 12, 13, 14>>                 \* the asset data region

\* A table row to generate: a name, a declared size, and the place of its
\* data counted from the start of the data region.
RowNames == {NameXPNG, NamePng, NameX, NameObj, NameJson}
RowShapes == { [size |-> 2, at |-> 0], [size |-> 2, at |-> 1],
               [size |-> 3, at |-> 2] }
GenRows == [name : RowNames, shape : RowShapes]

RECURSIVE TableLen(_)
TableLen(rows) ==
    IF rows = <<>> THEN 0 ELSE 2 + Len(Head(rows).name) + 12 + TableLen(Tail(rows))

RECURSIVE TableBytes(_, _)
TableBytes(rows, dataStart) ==
    IF rows = <<>> THEN <<>>
    ELSE LET r == Head(rows) IN
         U16(Len(r.name)) \o r.name \o U32(0) \o U32(r.shape.size)
           \o U32(dataStart + r.shape.at) \o TableBytes(Tail(rows), dataStart)

\* A binary LPK file laid out as the import guide describes: the magic (or
\* none), version 1, an asset count (the number of rows plus `extra`), the
\* table, and the data region.
MkBinary(withMagic, extra, rows) ==
    LET head == (IF withMagic THEN LPKMagic ELSE <<>>)
                  \o U32(1) \o U32(Len(rows) + extra)
    IN  head \o TableBytes(rows, Len(head) + TableLen(rows)) \o DataBytes

BinaryInputs ==
    { MkBinary(m, x, rows) :
        m \in BOOLEAN, x \in {0, 1}, rows \in SeqsUpTo(GenRows, MaxRows) }

\* Every prefix of a file with an empty table and of a file with one row.
ShortInputs ==
    UNION { Prefixes(MkBinary(m, 0, rows)) :
              m \in BOOLEAN,
              rows \in {<<>>, <<[name |-> NameX, shape |-> [size |-> 2, at |-> 0]]>>} }

\* Files whose rows all declare the whole file as their data: dataOffset 0
\* and size the file's length (no magic, version 1).
MkOverlapping(names) ==
    LET named == [i \in 1 .. Len(names) |-> [name |-> names[i]]]
        len == 8 + TableLen(named)
        rows == [i \in 1 .. Len(names) |->
                   [name |-> names[i], shape |-> [size |-> len, at |-> 0]]]
    IN  U32(1) \o U32(Len(rows)) \o TableBytes(rows, 0)

OverlappingInputs ==
    { MkOverlapping(<<n1, n2>>) : n1, n2 \in {NameX, NameObj, NameXPNG} }

Name1 == <<49>>                                  \* '1'
Name0 == <<48>>                                  \* '0'

\* Files of two and of three rows whose names have no extension, two of the
\* names being array indices; each row has 2 bytes of data.
OrderRow(name) == [name |-> name, shape |-> [size |-> 2, at |-> 0]]
OrderInputs ==
    { MkBinary(FALSE, 0, <<OrderRow(a), OrderRow(b)>>) :
        a, b \in {Name1, Name0, NameX} }
    \cup { MkBinary(FALSE, 0, <<OrderRow(a), OrderRow(b), OrderRow(c)>>) :
             a, b, c \in {Name1, Name0, NameX} }

\* Files of one row whose nameLength field reaches to the end of the file,
\* so that no row field is left behind the name, or one byte past the end
\* (magic or none, version 1, asset count 1).
MkNameOverrun(withMagic, past) ==
    LET head == (IF withMagic THEN LPKMagic ELSE <<>>) \o U32(1) \o U32(1)
        rest == NameX \o U32(0) \o U32(2) \o U32(0) \o DataBytes
    IN  head \o U16(Len(rest) + past) \o rest

NameOverrunInputs ==
    { MkNameOverrun(m, past) : m \in BOOLEAN, past \in {0, 1} }

ZipFile(name, dir, readable, json, data) ==
    [name |-> name, dir |-> dir, readable |-> readable, json |-> json,
     data |-> data]

ZipFiles ==
    { ZipFile(ManifestName, FALSE, TRUE, TRUE, <<123, 125>>),
      ZipFile(NameXPNG, FALSE, TRUE, FALSE, <<1>>),
      ZipFile(NameObj, FALSE, TRUE, FALSE, <<2>>),
      ZipFile(NameObj, FALSE, FALSE, FALSE, <<2>>),
      ZipFile(NameJson, FALSE, TRUE, TRUE, <<91, 93>>),
      ZipFile(NameJson, FALSE, TRUE, FALSE, <<3>>),
      ZipFile(NamePng, FALSE, TRUE, FALSE, <<4>>),
      ZipFile(NameX, FALSE, TRUE, FALSE, <<5>>),
      ZipFile(NameDir, TRUE, TRUE, FALSE, <<>>) }

\* zipFile.files is keyed by name: the names of an archive are distinct.
DistinctNames(fs) ==
    \A i, j \in 1 .. Len(fs) : i # j => fs[i].name # fs[j].name

NoArchive == [ok |-> FALSE]
Archives ==
    {NoArchive}
    \cup { [ok |-> TRUE, files |-> fs] :
             fs \in {f \in SeqsUpTo(ZipFiles, MaxFiles) : DistinctNames(f)} }

\* JSZip finds no archive in the generated binary and sniffing buffers (they
\* hold no end-of-central-directory record); a buffer that starts with the
\* archive signature comes with any archive and with JSZip defined or not.
Inputs1 ==
    { [buffer |-> b, archive |-> NoArchive, jszip |-> TRUE] :
        b \in SniffInputs \cup BinaryInputs \cup ShortInputs
               \cup OverlappingInputs \cup OrderInputs
               \cup NameOverrunInputs }
    \cup [buffer : {ZipSignature}, archive : Archives, jszip : BOOLEAN]

(***************************************************************************)
(* First LPKLoader class: load() and direct calls of the parse methods     *)
(***************************************************************************)

NoResult == [status |-> "none", by |-> "none"]

Init1 ==
    /\ \E inp \in Inputs1 :
         /\ buffer = inp.buffer
         /\ archive = inp.archive
         /\ jszip = inp.jszip
    /\ pc = "start"
    /\ format = "none"
    /\ result = NoResult

\* load(): the buffer has been read and detectFormat has returned.  The
\* default branch of the switch (an unknown tag) has no tag that reaches it.
DetectFormat ==
    /\ pc = "start"
    /\ format' = detectFormat(buffer)
    /\ pc' = IF format' = "threw" THEN "thrown" ELSE "detected"
    /\ UNCHANGED <<buffer, jszip, archive, result, varsScan, vars2, varsRest>>

\* A parse method runs as the branch of load()'s switch, or is called on
\* the buffer directly.
Dispatched(tag) == pc = "start" \/ (pc = "detected" /\ format = tag)

ParseZIPLPK ==
    /\ Dispatched("zip")
    /\ result' = parseZIPLPK(archive, jszip)
    /\ pc' = result'.status
    /\ UNCHANGED <<buffer, jszip, archive, format, varsScan, vars2, varsRest>>

\* parseJSONLPK: JSON.parse of the whole decoded buffer either throws or
\* gives an object; the grammar of JSON is not modelled.
ParseJSONLPK ==
    /\ Dispatched("json")
    /\ \E ok \in BOOLEAN :
         result' = IF ok
                   THEN [status |-> "returned", by |-> "parseJSONLPK",
                         format |-> "json"]
                   ELSE Thrown("parseJSONLPK", "SyntaxError")
    /\ pc' = result'.status
    /\ UNCHANGED <<buffer, jszip, archive, format, varsScan, vars2, varsRest>>

ParseBinaryLPK ==
    /\ Dispatched("binary")
    /\ result' = parseBinaryLPK(buffer)
    /\ pc' = result'.status
    /\ UNCHANGED <<buffer, jszip, archive, format, varsScan, vars2, varsRest>>

\* The variables of the other parts, at rest.
IdleScan ==
    /\ zipData = <<>>
    /\ offset = 0
    /\ files = <<>>
    /\ scanPc = "idle"
    /\ headersAt = {}
    /\ examined = <<>>

Idle2 ==
    /\ loadedAssets = [models |-> <<>>]
    /\ calls = <<>>
    /\ returned = <<>>

Init == Init1 /\ IdleScan /\ Idle2 /\ IdleRest

Next == DetectFormat \/ ParseZIPLPK \/ ParseJSONLPK \/ ParseBinaryLPK

\* One call on the first LPKLoader class.
Spec == Init /\ [][Next]_vars

(***************************************************************************)
(* Properties of the first LPKLoader class, checked under Spec             *)
(***************************************************************************)

FormatTags == {"zip", "json", "binary"}

BinaryCallEnded == result.by = "parseBinaryLPK"
BinaryReturned == BinaryCallEnded /\ result.status = "returned"
ZipCallEnded == result.by = "parseZIPLPK"
ZipReturned == ZipCallEnded /\ result.status = "returned"

\* C1: once detectFormat has run on a buffer (the empty buffer, a buffer
\* shorter than 10 bytes and a buffer of non-text bytes included), its
\* outcome is one of the three tags, never an exception.
C1_SniffTotal == format # "none" => format \in FormatTags

C1_Witness ==
    /\ pc = "detected"
    /\ format = "binary"
    /\ buffer = <<>>

\* C2: a buffer whose first two bytes are 'P' 'K', and a buffer that begins
\* with the 8-byte LPK header followed by an archive, is tagged zip.
StartsWithPK(b) == Len(b) >= 2 /\ b[1] = 80 /\ b[2] = 75
HeaderThenArchive(b) ==
    /\ Len(b) >= 12
    /\ Slice(b, 0, 8) = LPKHeader
    /\ Slice(b, 8, 12) = ZipSignature

C2_HeaderTaggedArchive ==
    (format # "none" /\ (StartsWithPK(buffer) \/ HeaderThenArchive(buffer)))
        => format = "zip"

\* The first character of a text that is not white space is '{' or '['.
FirstNonSpaceOpens(text) ==
    \E k \in 1 .. Len(text) :
        /\ text[k] \in {123, 91}
        /\ \A j \in 1 .. (k - 1) : text[j] \in WhiteSpace

\* C17: for a buffer that does not start with 'P' 'K', the tag is json
\* exactly when the text decoded from the first 10 bytes starts, white
\* space aside, with '{' or '['; else it is binary; and the tag is the tag
\* of the first 10 bytes alone.
C17_TextOrBinaryFromTenBytes ==
    (format # "none" /\ ~StartsWithPK(buffer)) =>
        LET ten == SubSeq(buffer, 1, Min(10, Len(buffer))) IN
        /\ format = "json" <=> FirstNonSpaceOpens(TextDecode(ten))
        /\ format # "json" <=> format = "binary"
        /\ format = detectFormat(ten)

C17_Witness ==
    /\ format = "binary"
    /\ Len(buffer) > 10
    /\ buffer[11] = 123
    /\ \A k \in 1 .. 10 : buffer[k] = 32

\* C3 as claimed: parseBinaryLPK fails for every buffer shorter than the
\* 12 bytes of magic, version and count.
C3_ShortBufferFails ==
    (BinaryCallEnded /\ Len(buffer) < 12) => result.status = "thrown"

\* C3 as amended: parseBinaryLPK fails for every buffer shorter than 8
\* bytes and for every buffer shorter than 12 bytes that starts with the
\* magic; a buffer of 8 to 11 bytes that does not start with the magic is
\* read from offset 0 and fails exactly when its asset count, bytes 4..7,
\* is not 0.
C3_ShortBufferAmended ==
    (BinaryCallEnded /\ Len(buffer) < 12) =>
        (result.status = "thrown"
            <=> \/ Len(buffer) < 8
                \/ SubSeq(buffer, 1, 4) = LPKMagic
                \/ SubSeq(buffer, 5, 8) # <<0, 0, 0, 0>>)

C3_Witness ==
    /\ BinaryReturned
    /\ Len(buffer) >= 8
    /\ Len(buffer) < 12

\* The rows of the asset table of a buffer parseBinaryLPK returned for.
RowsOf(buf) ==
    LET off == headerOffset(buf)
    IN  readAssetTable(buf, off + 8, Uint32LE(buf, off + 4), <<>>).assets

IsModelName(name) == ExtOf(name) \in ModelExts
IsTextureName(name) == ExtOf(name) \in TextureExts

\* Row i is the row whose bytes the result holds under its name: every row
\* of a model or texture, and the last row of its name in the data map.
Kept(rows, i) ==
    \/ IsModelName(rows[i].name)
    \/ IsTextureName(rows[i].name)
    \/ \A j \in (i + 1) .. Len(rows) : rows[j].name # rows[i].name

\* The bytes the result holds for row i: the k-th model for the k-th model
\* row, likewise for textures, else the data map's value for the name.
EntryDataOfRow(res, rows, i) ==
    IF IsModelName(rows[i].name)
    THEN res.models[Cardinality({j \in 1 .. i : IsModelName(rows[j].name)})].data
    ELSE IF IsTextureName(rows[i].name)
    THEN res.textures[Cardinality({j \in 1 .. i : IsTextureName(rows[j].name)})].data
    ELSE res.data[rows[i].name]

RowInRange(buf, row) == row.dataOffset + row.size <= Len(buf)

\* C18: when the first 4 bytes are not 'LPK\0' the call goes on from
\* offset 0 (version at 0, count at 4, table at 8); when they are, version
\* is read at 4, the count at 8 and the table at 12.  The call fails only
\* for a read past the end of the buffer.
C18_MagicMismatchRestarts ==
    BinaryCallEnded =>
        LET hasMagic == Len(buffer) >= 4 /\ SubSeq(buffer, 1, 4) = <<76, 80, 75, 0>>
            base == IF hasMagic THEN 4 ELSE 0
        IN  IF Len(buffer) < base + 8 THEN result.status = "thrown"
            ELSE LET table == readAssetTable(buffer, base + 8,
                                             Uint32LE(buffer, base + 4), <<>>)
                 IN  IF ~table.ok THEN result.status = "thrown"
                     ELSE /\ result.status = "returned"
                          /\ result.version = Uint32LE(buffer, base)
                          /\ result = extractAssets(buffer, table.assets,
                                        NewResult("parseBinaryLPK", "binary",
                                                  Uint32LE(buffer, base)))

C18_Witness ==
    /\ BinaryReturned
    /\ Len(buffer) >= 4
    /\ SubSeq(buffer, 1, 4) # <<76, 80, 75, 0>>
    /\ result.version = 1
    /\ Len(result.models) = 1
    /\ Len(result.textures) = 1

\* C4: when dataOffset + size <= buffer length for every row, the bytes of
\* each entry are buffer[dataOffset .. dataOffset + size), dataOffset counted
\* from the start of the buffer, so their length is the declared size.
C4_EntryBytesAbsolute ==
    BinaryReturned =>
        LET rows == RowsOf(buffer) IN
        (\A i \in 1 .. Len(rows) : RowInRange(buffer, rows[i])) =>
            \A i \in 1 .. Len(rows) :
                Kept(rows, i) =>
                    LET data == EntryDataOfRow(result, rows, i) IN
                    /\ Len(data) = rows[i].size
                    /\ data = SubSeq(buffer, rows[i].dataOffset + 1,
                                     rows[i].dataOffset + rows[i].size)

C4_Witness ==
    /\ BinaryReturned
    /\ Len(result.textures) = 1
    /\ result.hasData
    /\ LET rows == RowsOf(buffer) IN
       /\ Len(rows) = 2
       /\ \A i \in 1 .. 2 : RowInRange(buffer, rows[i]) /\ rows[i].size > 0

\* C5: a row whose dataOffset + size runs past the end of the buffer gives
\* a TruncatedEntry marker, not bytes shorter than the declared size, and
\* the other entries of the buffer are intact.
C5_TruncatedEntryMarked ==
    BinaryReturned =>
        LET rows == RowsOf(buffer) IN
        \A i \in 1 .. Len(rows) :
            Kept(rows, i) =>
                LET data == EntryDataOfRow(result, rows, i) IN
                IF RowInRange(buffer, rows[i])
                THEN data = SubSeq(buffer, rows[i].dataOffset + 1,
                                   rows[i].dataOffset + rows[i].size)
                ELSE Len(data) >= rows[i].size

\* C8: a name ending in .PNG is a texture like .png, and a name with no
\* '.' is never filed as a model or a texture.
HasDot(name) == \E i \in 1 .. Len(name) : name[i] = 46

C8_NoDotIsUnknown ==
    (BinaryReturned \/ ZipReturned) =>
        /\ \A i \in 1 .. Len(result.models) : HasDot(result.models[i].filename)
        /\ \A i \in 1 .. Len(result.textures) : HasDot(result.textures[i].filename)

\* C9: once an entry of the archive has been extracted, parseZIPLPK does
\* not throw: with a model or texture as the first entry (and every entry
\* readable), the call returns whatever the later entries hold, a .json
\* entry included.
FirstEntryExtracted(ar) ==
    /\ ar.ok
    /\ Len(ar.files) >= 1
    /\ ~ar.files[1].dir
    /\ (IsModelName(ar.files[1].name) \/ IsTextureName(ar.files[1].name))
    /\ \A i \in 1 .. Len(ar.files) : ar.files[i].readable

C9_NoThrowAfterSuccess ==
    (ZipCallEnded /\ jszip /\ FirstEntryExtracted(archive))
        => result.status = "returned"

\* C10: with manifest.json in the archive (every entry readable, every
\* .json entry valid JSON), parseZIPLPK returns, and the metadata of the
\* result is the parsed manifest.
HasManifest(ar) ==
    /\ ar.ok
    /\ \E i \in 1 .. Len(ar.files) : ar.files[i].name = ManifestName
    /\ \A i \in 1 .. Len(ar.files) :
         /\ ar.files[i].readable
         /\ (ExtOf(ar.files[i].name) = JsonExt => ar.files[i].json)

C10_ManifestMetadata ==
    (ZipCallEnded /\ jszip /\ HasManifest(archive)) =>
        /\ result.status = "returned"
        /\ \E i \in 1 .. Len(archive.files) :
             /\ archive.files[i].name = ManifestName
             /\ result.metadata = JSONValue(archive.files[i])

\* The number of entries a result holds under a name, over its models, its
\* textures and its data map.
EntriesNamed(res, name) ==
    Cardinality({k \in 1 .. Len(res.models) : res.models[k].filename = name})
      + Cardinality({k \in 1 .. Len(res.textures) :
                       res.textures[k].filename = name})
      + (IF name \in DOMAIN res.data THEN 1 ELSE 0)

\* C13: entry names are unique within a result: for rows with equal names
\* the result holds exactly one entry of that name, in any category.
C13_NamesUnique ==
    BinaryReturned =>
        LET rows == RowsOf(buffer) IN
        \A i \in 1 .. Len(rows) : EntriesNamed(result, rows[i].name) = 1

RECURSIVE SumLen(_)
SumLen(entries) ==
    IF entries = <<>> THEN 0
    ELSE Len(Head(entries).data) + SumLen(Tail(entries))

RECURSIVE SumMapLen(_, _)
SumMapLen(map, keys) ==
    IF keys = {} THEN 0
    ELSE LET k == CHOOSE x \in keys : TRUE
         IN  Len(map[k]) + SumMapLen(map, keys \ {k})

\* The bytes held by all entries of a result.
TotalBytes(res) ==
    SumLen(res.models) + SumLen(res.textures) + SumMapLen(res.data, DOMAIN res.data)

\* C14: the bytes held by all entries of a result never exceed the length
\* of the input buffer, also when rows declare overlapping ranges.
C14_TotalBytesBounded ==
    BinaryReturned => TotalBytes(result) <= Len(buffer)

\* The list a row's name is filed under.
ListOf(name) ==
    IF IsModelName(name) THEN "models"
    ELSE IF IsTextureName(name) THEN "textures" ELSE "data"

\* The names of the rows filed under a list, in row order.
RECURSIVE NamesWhere(_, _)
NamesWhere(rows, list) ==
    IF rows = <<>> THEN <<>>
    ELSE (IF ListOf(Head(rows).name) = list THEN <<Head(rows).name>> ELSE <<>>)
           \o NamesWhere(Tail(rows), list)

\* A sequence of names with every name kept at its first place only.
RECURSIVE FirstPlaces(_, _)
FirstPlaces(names, seen) ==
    IF names = <<>> THEN <<>>
    ELSE (IF Head(names) \in seen THEN <<>> ELSE <<Head(names)>>)
           \o FirstPlaces(Tail(names), seen \cup {Head(names)})

\* C16: the entries of a result stand in the order of the table rows: the
\* models, the textures and the entries of the data map each in the order
\* in which their names first appear in the table, never sorted.
C16_SourceOrderKept ==
    BinaryReturned =>
        LET rows == RowsOf(buffer) IN
        /\ [k \in 1 .. Len(result.models) |-> result.models[k].filename]
             = NamesWhere(rows, "models")
        /\ [k \in 1 .. Len(result.textures) |-> result.textures[k].filename]
             = NamesWhere(rows, "textures")
        /\ result.dataKeys = FirstPlaces(NamesWhere(rows, "data"), {})

\* C21: every entry of the archive that is not a directory is filed under
\* one category of the result (model, texture, data, or unknown with its
\* bytes kept): no entry is dropped.
C21_NoEntryDropped ==
    (ZipReturned /\ archive.ok) =>
        \A i \in 1 .. Len(archive.files) :
            ~archive.files[i].dir
                => EntriesNamed(result, archive.files[i].name) = 1

\* Whether `remaining` table rows starting at off lie inside the buffer:
\* the two bytes of nameLength, then the name and the twelve bytes of type,
\* size and dataOffset.
RECURSIVE TableFits(_, _, _)
TableFits(buf, off, remaining) ==
    \/ remaining = 0
    \/ /\ off + 2 <= Len(buf)
       /\ off + 2 + Uint16LE(buf, off) + 12 <= Len(buf)
       /\ TableFits(buf, off + 2 + Uint16LE(buf, off) + 12, remaining - 1)

\* The buffer holds the header fields, and the table its asset count
\* announces runs past the end of the buffer.
TableOverruns(buf) ==
    LET off == IF Len(buf) >= 4 /\ SubSeq(buf, 1, 4) = LPKMagic THEN 4 ELSE 0
    IN  /\ Len(buf) >= off + 8
        /\ ~TableFits(buf, off + 8, Uint32LE(buf, off + 4))

\* C27: when the asset count or a name length makes the table run past the
\* end of the buffer, parseBinaryLPK throws the RangeError of the read that
\* failed: it returns no manifest and no part of one, whatever rows came
\* before the one that does not fit.
C27_TableOverrunThrows ==
    (BinaryCallEnded /\ TableOverruns(buffer))
        => result = Thrown("parseBinaryLPK", "RangeError")

\* A table whose first row is whole and whose second row does not fit.
C27_Witness ==
    /\ BinaryCallEnded
    /\ result.status = "thrown"
    /\ TableOverruns(buffer)
    /\ \E m \in BOOLEAN, row \in GenRows : buffer = MkBinary(m, 1, <<row>>)

(***************************************************************************)
(* The LPK analysis script: the scan for local file headers                *)
(***************************************************************************)

MaxEntries == 2       \* entries of a generated archive body

\* A local file header: the signature, 14 bytes of version, flags, method,
\* time, date and CRC, then compressed size (+18), uncompressed size (+22),
\* filename length (+26), extra field length (+28), the name, the extra field.
LocalHeader(name, extraLen, csize) ==
    ZipSignature \o Repeat(0, 14) \o U32(csize) \o U32(csize)
        \o U16(Len(name)) \o U16(extraLen) \o name \o Repeat(0, extraLen)

\* The entries to build bodies from: header and payload bytes.
GenEntries ==
    { LocalHeader(<<97>>, 0, 2) \o <<7, 7>>,                 \* 'a', 2 bytes
      LocalHeader(<<98>>, 1, 0),                             \* 'b', empty
      LocalHeader(<<99>>, 0, 31) \o LocalHeader(<<100>>, 0, 0),
                               \* 'c', whose payload holds a header of 'd'
      LocalHeader(<<101>>, 0, 0) \o <<7, 7>>,                \* 'e', size 0 declared
      LocalHeader(<<102>>, 0, 100) }                         \* 'f', size past the end

\* What follows the entries: nothing, 30 bytes without a signature, or a
\* header of 30 bytes (no name, no payload) that ends the body.
GenTrailers == { <<>>, Repeat(9, 30), LocalHeader(<<>>, 0, 0) }

ScanInputs ==
    { LPKHeader \o Concat(es) \o t :
        es \in SeqsUpTo(GenEntries, MaxEntries), t \in GenTrailers }

SignatureAt(data, p) ==
    /\ ByteAt(data, p) = 80
    /\ ByteAt(data, p + 1) = 75
    /\ ByteAt(data, p + 2) = 3
    /\ ByteAt(data, p + 3) = 4

\* The header fields the loop reads at the cursor.
filenameLengthAt(data, p) == Uint16LE(data, p + 26)
extraFieldLengthAt(data, p) == Uint16LE(data, p + 28)
compressedSizeAt(data, p) == Uint32LE(data, p + 18)
uncompressedSizeAt(data, p) == Uint32LE(data, p + 22)

\* The cursor moved past header, name and extra field only.
nextOffsetNoPayload(data, p) ==
    p + 30 + filenameLengthAt(data, p) + extraFieldLengthAt(data, p)

\* The cursor moved by one byte behind a recognised header.
nextOffsetRescan(data, p) == p + 1

\* offset += 30 + filenameLength + extraFieldLength + compressedSize
nextOffset(data, p) ==
    p + 30 + filenameLengthAt(data, p) + extraFieldLengthAt(data, p)
      + compressedSizeAt(data, p)

\* The object pushed on `files` for the header at the cursor.
fileEntry(data, p) ==
    [filename |-> BufferToString(
                    Slice(data, p + 30, p + 30 + filenameLengthAt(data, p))),
     compressedSize |-> compressedSizeAt(data, p),
     uncompressedSize |-> uncompressedSizeAt(data, p),
     offset |-> p + 30 + filenameLengthAt(data, p) + extraFieldLengthAt(data, p)]

\* The loop condition with the last 30 bytes of the body scanned too.
scanningToEnd == scanPc = "scan" /\ offset < Len(zipData) - 29

\* while (offset < zipData.length - 30)
scanning == scanPc = "scan" /\ offset < Len(zipData) - 30

Idle1 ==
    /\ buffer = <<>>
    /\ jszip = FALSE
    /\ archive = NoArchive
    /\ pc = "idle"
    /\ format = "none"
    /\ result = NoResult

\* The script has read the file and sliced off the 8-byte header.
InitScan ==
    /\ \E lpkData \in ScanInputs : zipData = Slice(lpkData, 8, Len(lpkData))
    /\ offset = 0
    /\ files = <<>>
    /\ scanPc = "scan"
    /\ headersAt = {}
    /\ examined = <<>>
    /\ Idle1
    /\ Idle2
    /\ IdleRest

\* A round of the loop with the signature at the cursor.
ScanEntry ==
    /\ scanning
    /\ SignatureAt(zipData, offset)
    /\ files' = Append(files, fileEntry(zipData, offset))
    /\ offset' = nextOffset(zipData, offset)
    /\ headersAt' = headersAt \cup {offset}
    /\ examined' = Append(examined, offset)
    /\ UNCHANGED <<zipData, scanPc, vars1, vars2, varsRest>>

\* A round of the loop with no signature at the cursor.
ScanSkip ==
    /\ scanning
    /\ ~SignatureAt(zipData, offset)
    /\ offset' = offset + 1
    /\ examined' = Append(examined, offset)
    /\ UNCHANGED <<zipData, files, scanPc, headersAt, vars1, vars2, varsRest>>

\* The loop condition fails: the count of files is printed.
ScanEnd ==
    /\ scanPc = "scan"
    /\ ~scanning
    /\ scanPc' = "done"
    /\ UNCHANGED <<zipData, offset, files, headersAt, examined, vars1, vars2, varsRest>>

NextScan == ScanEntry \/ ScanSkip \/ ScanEnd

\* One run of the analysis script's scan.
SpecScan == InitScan /\ [][NextScan]_vars

\* The script is straight-line synchronous code: a run that can take a
\* step takes it.
SpecScanFair == SpecScan /\ WF_vars(NextScan)

(***************************************************************************)
(* Properties of the scan, checked under SpecScan                          *)
(***************************************************************************)

SignaturePositions(data) ==
    {p \in 0 .. (Len(data) - 4) : SignatureAt(data, p)}

\* C6 as claimed: the number of entries found is the number of occurrences
\* of the signature 50 4B 03 04 in the body, wherever they start.
C6_CountsEverySignature ==
    scanPc = "done" => Len(files) = Cardinality(SignaturePositions(zipData))

\* C6 as amended: the entries found are the occurrences of the signature
\* that start more than 30 bytes before the end of the body and do not lie
\* inside an entry recognised before them (its header, name, extra field
\* and compressedSize bytes of payload); no other occurrence is counted.
InsideEntry(data, q, p) ==
    /\ q < p
    /\ p < q + 30 + filenameLengthAt(data, q) + extraFieldLengthAt(data, q)
             + compressedSizeAt(data, q)

C6_CountsUnconsumedSignatures ==
    scanPc = "done" =>
        /\ Len(files) = Cardinality(headersAt)
        /\ headersAt =
             { p \in SignaturePositions(zipData) :
                 /\ p < Len(zipData) - 30
                 /\ ~\E q \in headersAt : InsideEntry(zipData, q, p) }

C6_Witness ==
    /\ scanPc = "done"
    /\ Len(files) >= 1
    /\ \E p \in SignaturePositions(zipData) :
         \E q \in headersAt : InsideEntry(zipData, q, p)
    /\ \E p \in SignaturePositions(zipData) :
         /\ p >= Len(zipData) - 30
         /\ ~\E q \in headersAt : InsideEntry(zipData, q, p)

\* C15: when the bytes behind the 8-byte header do not begin with the
\* archive signature (a zero-length body included), the scan fails: it does
\* not run to its end and report an entry list.
C15_NoSignatureFails ==
    scanPc = "done" => StartsWithPK(zipData)

\* C19: a round of the loop moves the cursor from p to
\* p + 30 + filenameLength + extraFieldLength + compressedSize when an entry
\* is recognised at p, else to p + 1; the cursor grows in every round, so
\* the position of a round was never the position of an earlier round and
\* never lies inside an entry recognised before.
C19_CursorAdvances ==
    [][examined' # examined =>
         /\ offset' = IF SignatureAt(zipData, offset)
                      THEN offset + 30 + filenameLengthAt(zipData, offset)
                             + extraFieldLengthAt(zipData, offset)
                             + compressedSizeAt(zipData, offset)
                      ELSE offset + 1
         /\ offset' > offset
         /\ \A k \in 1 .. Len(examined) : examined[k] < offset
         /\ \A q \in headersAt : ~InsideEntry(zipData, q, offset)]_vars

C19_Witness ==
    /\ Len(files) = 2
    /\ \E q \in headersAt :
         /\ compressedSizeAt(zipData, q) > 0
         /\ \E p \in SignaturePositions(zipData) : InsideEntry(zipData, q, p)
    /\ \E k \in 1 .. Len(examined) : examined[k] \notin headersAt

\* C20: the scan reaches the end of its loop for every body, after at most
\* one round per byte of the body (at most length - 30 rounds), whatever
\* sizes the headers declare.
C20_ScanTerminates ==
    /\ <>(scanPc = "done")
    /\ [](Len(examined) <= Max(0, Len(zipData) - 30))

C20_Witness ==
    /\ scanPc = "done"
    /\ offset > Len(zipData)
    /\ \E q \in headersAt : compressedSizeAt(zipData, q) = 0
    /\ \E q \in headersAt : q + compressedSizeAt(zipData, q) > Len(zipData)

(***************************************************************************)
(* Second LPKLoader class: loadLPK on one loader object                    *)
(*                                                                         *)
(* A call runs from one await to the next as one step.  Its awaits are     *)
(* zip.loadAsync, file.async for each entry that is not a directory, and   *)
(* the promise of parseAssets; parseAssets itself holds no await.          *)
(***************************************************************************)

MaxCalls == 2         \* loadLPK calls made on the loader

CallIds == 1 .. MaxCalls

NameMeta   == <<101, 46, 109, 101, 116, 97>>             \* 'e.meta'
NameLand   == <<48, 46, 108, 97, 110, 100>>              \* '0.land'
NameEditor == <<101, 46, 101, 100, 105, 116, 111, 114>>  \* 'e.editor'
NameTxt    == <<114, 46, 116, 120, 116>>                 \* 'r.txt'

SuffixMeta   == <<46, 109, 101, 116, 97>>                \* '.meta'
SuffixLand   == <<46, 108, 97, 110, 100>>                \* '.land'
SuffixEditor == <<46, 101, 100, 105, 116, 111, 114>>     \* '.editor'

\* The LPK files handed to loadLPK: the bytes of the header and what JSZip
\* makes of the bytes behind it.
Lpk2Inputs ==
    { [header |-> LPKHeader,
       zip |-> [ok |-> TRUE,
                files |-> <<ZipFile(NameLand, FALSE, TRUE, FALSE, <<1, 2>>)>>]],
      [header |-> LPKHeader,
       zip |-> [ok |-> TRUE,
                files |-> <<ZipFile(NameMeta, FALSE, TRUE, TRUE, <<123, 125>>),
                            ZipFile(NameEditor, FALSE, TRUE, FALSE, <<3>>)>>]],
      [header |-> LPKHeader,
       zip |-> [ok |-> TRUE,
                files |-> <<ZipFile(NameDir, TRUE, TRUE, FALSE, <<>>),
                            ZipFile(NameLand, FALSE, FALSE, FALSE, <<4>>),
                            ZipFile(NameTxt, FALSE, TRUE, FALSE, <<5>>)>>]],
      [header |-> LPKHeader,
       zip |-> [ok |-> TRUE,
                files |-> <<ZipFile(NameMeta, FALSE, TRUE, FALSE,
                                    <<0, 76, 80, 75, 49, 0, 65, 66>>)>>]],
      [header |-> LPKHeader, zip |-> NoArchive],
      [header |-> <<184, 251, 70, 126>>, zip |-> NoArchive] }

\* s.endsWith(suffix)
EndsWith(s, suffix) ==
    /\ Len(s) >= Len(suffix)
    /\ SubSeq(s, Len(s) - Len(suffix) + 1, Len(s)) = suffix

\* One round of the loop of extractStrings: a printable ASCII byte extends
\* `current`; any other byte ends it, and it is kept when it has at least
\* minLength characters.
stringsStep(st, byte, minLength) ==
    IF byte >= 32 /\ byte <= 126
    THEN [current |-> Append(st.current, byte), strings |-> st.strings]
    ELSE [current |-> <<>>,
          strings |-> IF Len(st.current) >= minLength
                      THEN Append(st.strings, st.current) ELSE st.strings]

\* The rounds of the loop for the bytes lo .. hi (1-based) in order, from
\* the loop state st.  The range is halved, and the state after the first
\* half is evaluated (by the test on it, which always holds: there are no
\* more strings than bytes) before the second half starts, to keep the
\* evaluation shallow on long data.
RECURSIVE extractStringsFrom(_, _, _, _, _)
extractStringsFrom(data, lo, hi, st, minLength) ==
    IF lo > hi THEN st
    ELSE IF lo = hi THEN stringsStep(st, data[lo], minLength)
    ELSE LET mid == (lo + hi) \div 2
             left == extractStringsFrom(data, lo, mid, st, minLength)
         IN  IF Len(left.strings) <= mid
             THEN extractStringsFrom(data, mid + 1, hi, left, minLength)
             ELSE left

\* The strings after the loop and the `if` behind it, which keeps a run that
\* ends with the data.
stringsFound(data, minLength) ==
    LET st == extractStringsFrom(data, 1, Len(data),
                                 [current |-> <<>>, strings |-> <<>>], minLength)
    IN  IF Len(st.current) >= minLength
        THEN Append(st.strings, st.current) ELSE st.strings

\* extractStrings without its slice(0, 20).
extractStringsUncapped(data) == stringsFound(data, 4)

\* extractStrings(data, minLength = 4): the first 20 strings found.
extractStrings(data) ==
    LET strings == stringsFound(data, 4)
    IN  SubSeq(strings, 1, Min(20, Len(strings)))

\* parseBinaryMeta(data); firstBytes stands for the hex dump of the bytes.
parseBinaryMeta(data) ==
    [type |-> "binary_meta",
     header |-> [size |-> Len(data), firstBytes |-> Slice(data, 0, 16)],
     possibleStrings |-> extractStrings(data)]

\* parseMetaFile(data): the JSON value, or the binary analysis when
\* JSON.parse throws.
parseMetaFile(asset) ==
    IF asset.json THEN [type |-> "json", json |-> asset.data]
    ELSE parseBinaryMeta(asset.data)

parseLandFile(data) ==
    [type |-> "land_data", size |-> Len(data), format |-> "unknown",
     rawData |-> data]

parseEditorFile(data) ==
    [type |-> "editor_data", size |-> Len(data), format |-> "unknown",
     rawData |-> data]

\* The constructor's this.loadedAssets.
NewLoadedAssets ==
    [models |-> <<>>, textures |-> <<>>, materials |-> <<>>,
     animations |-> <<>>, metadata |-> [type |-> "null"]]

\* Whether the try block of parseAssets throws on the entry: the three
\* parse methods read data.length, a TypeError when the entry has no data
\* (parseMetaFile reaches it in parseBinaryMeta, JSON.parse having thrown on
\* the empty text that decoding undefined gives).
parseThrows(a) ==
    /\ "data" \notin DOMAIN a
    /\ \/ EndsWith(a.name, SuffixMeta)
       \/ EndsWith(a.name, SuffixLand)
       \/ EndsWith(a.name, SuffixEditor)

\* One round of the loop of parseAssets with its try block done.
parseAsset(la, a) ==
    IF EndsWith(a.name, SuffixMeta)
    THEN [la EXCEPT !.metadata = parseMetaFile(a)]
    ELSE IF EndsWith(a.name, SuffixLand)
    THEN [la EXCEPT !.models = Append(@, parseLandFile(a.data))]
    ELSE IF EndsWith(a.name, SuffixEditor)
    THEN [la EXCEPT !.materials = Append(@, parseEditorFile(a.data))]
    ELSE la

\* parseAssets whose loop ends with the first entry that throws.
RECURSIVE parseAssetsStopOnError(_, _)
parseAssetsStopOnError(la, assets) ==
    IF assets = <<>> THEN la
    ELSE LET a == Head(assets) IN
         IF a.encrypted THEN parseAssetsStopOnError(la, Tail(assets))
         ELSE IF parseThrows(a) THEN la
         ELSE parseAssetsStopOnError(parseAsset(la, a), Tail(assets))

\* parseAssets(assets): the loop over Object.entries(assets), on
\* this.loadedAssets; the catch block logs the error and the loop goes on.
RECURSIVE parseAssets(_, _)
parseAssets(la, assets) ==
    IF assets = <<>> THEN la
    ELSE LET a == Head(assets)
             next ==
               IF a.encrypted THEN la
               ELSE IF parseThrows(a) THEN la
               ELSE parseAsset(la, a)
         IN  parseAssets(next, Tail(assets))

\* The `if (file.dir) continue` of the loop in loadZipContents.
RECURSIVE SkipDirs(_)
SkipDirs(fs) ==
    IF fs # <<>> /\ Head(fs).dir THEN SkipDirs(Tail(fs)) ELSE fs

\* The entry stored as extracted even when file.async rejected.
extractedAssetNoPlaceholder(file) ==
    [name |-> file.name, encrypted |-> FALSE, data |-> file.data,
     size |-> Len(file.data), json |-> file.json]

\* What loadZipContents stores in `assets` for an entry: its bytes, or the
\* placeholder of the catch block.
extractedAsset(file) ==
    IF file.readable
    THEN [name |-> file.name, encrypted |-> FALSE, data |-> file.data,
          size |-> Len(file.data), json |-> file.json]
    ELSE [name |-> file.name, encrypted |-> TRUE, data |-> <<>>,
          size |-> 0, json |-> FALSE]

IdleCall ==
    [pc |-> "idle", input |-> [header |-> <<>>, zip |-> NoArchive],
     todo |-> <<>>, assets |-> <<>>, prior |-> {}]

Ended(c) == calls[c].pc \in {"done", "thrown"}

Init2 ==
    /\ loadedAssets = NewLoadedAssets
    /\ calls = [c \in CallIds |-> IdleCall]
    /\ returned = [c \in CallIds |-> NoResult]
    /\ jszip \in BOOLEAN
    /\ buffer = <<>>
    /\ archive = NoArchive
    /\ pc = "idle"
    /\ format = "none"
    /\ result = NoResult
    /\ IdleScan
    /\ IdleRest

Unchanged2 ==
    UNCHANGED <<buffer, jszip, archive, pc, format, result, varsScan, varsRest>>

\* loadLPK(lpkFile) up to its first await: parseLPKStructure reads the 8
\* header bytes (a RangeError on a shorter file), extractZipData slices
\* them off, loadZipContents throws without JSZip and else awaits
\* zip.loadAsync.  `prior` records the calls that had ended by then.
LoadLPK(c) ==
    /\ calls[c].pc = "idle"
    /\ \E inp \in Lpk2Inputs :
         calls' = [calls EXCEPT ![c] =
                     [@ EXCEPT !.input = inp,
                               !.prior = {d \in CallIds : Ended(d)},
                               !.pc = IF Len(inp.header) < 8 \/ ~jszip
                                      THEN "thrown" ELSE "loadAsync"]]
    /\ UNCHANGED <<loadedAssets, returned>>
    /\ Unchanged2

\* zip.loadAsync settles: a rejection ends the call; else the loop runs to
\* its first file.async, or to its end.
LoadAsyncSettles(c) ==
    /\ calls[c].pc = "loadAsync"
    /\ calls' = [calls EXCEPT ![c] =
         IF ~@.input.zip.ok THEN [@ EXCEPT !.pc = "thrown"]
         ELSE LET todo == SkipDirs(@.input.zip.files) IN
              [@ EXCEPT !.todo = todo,
                        !.pc = IF todo = <<>> THEN "zipLoaded" ELSE "extract"]]
    /\ UNCHANGED <<loadedAssets, returned>>
    /\ Unchanged2

\* file.async('uint8array') settles for the entry at hand.
FileAsyncSettles(c) ==
    /\ calls[c].pc = "extract"
    /\ calls' = [calls EXCEPT ![c] =
         LET todo == SkipDirs(Tail(@.todo)) IN
         [@ EXCEPT !.assets = Append(@, extractedAsset(Head(calls[c].todo))),
                   !.todo = todo,
                   !.pc = IF todo = <<>> THEN "zipLoaded" ELSE "extract"]]
    /\ UNCHANGED <<loadedAssets, returned>>
    /\ Unchanged2

\* loadZipContents has resolved: parseAssets(assets) runs.
ParseAssets(c) ==
    /\ calls[c].pc = "zipLoaded"
    /\ loadedAssets' = parseAssets(loadedAssets, calls[c].assets)
    /\ calls' = [calls EXCEPT ![c].pc = "parsed"]
    /\ UNCHANGED returned
    /\ Unchanged2

\* return this.loadedAssets; `returned` keeps what the object holds then.
Return(c) ==
    /\ calls[c].pc = "parsed"
    /\ returned' = [returned EXCEPT ![c] = loadedAssets]
    /\ calls' = [calls EXCEPT ![c].pc = "done"]
    /\ UNCHANGED loadedAssets
    /\ Unchanged2

\* getAssetSummary() on this.loadedAssets: totalAssets is the number of own
\* keys of the object (Object.keys).
getAssetSummary(la) ==
    [totalAssets |-> Cardinality(DOMAIN la),
     metadata |-> la.metadata.type # "null",
     models |-> Len(la.models),
     textures |-> Len(la.textures),
     materials |-> Len(la.materials),
     animations |-> Len(la.animations)]

\* loader.getAssetSummary(): it returns getAssetSummary(loadedAssets) and
\* changes nothing on the loader.
GetAssetSummary ==
    /\ UNCHANGED <<loadedAssets, calls, returned>>
    /\ Unchanged2

Next2 ==
    \/ \E c \in CallIds :
          \/ LoadLPK(c)
          \/ LoadAsyncSettles(c)
          \/ FileAsyncSettles(c)
          \/ ParseAssets(c)
          \/ Return(c)
    \/ GetAssetSummary

\* loadLPK calls on one loader object.
SpecLoader2 == Init2 /\ [][Next2]_vars

(***************************************************************************)
(* Properties of the second LPKLoader class, checked under SpecLoader2     *)
(***************************************************************************)

\* C7: parsing the same buffer twice, the second call made after the first
\* has returned, gives results with the same entries in the same order.
C7_SecondParseSame ==
    \A c, d \in CallIds :
        (/\ calls[c].pc = "done"
         /\ calls[d].pc = "done"
         /\ c \in calls[d].prior
         /\ calls[c].input = calls[d].input)
            => returned[d] = returned[c]

\* The object a completed call handed to its caller: loadLPK returns
\* this.loadedAssets itself, not a copy, so the caller's manifest is what
\* that object holds now.
returnedManifest(c) == loadedAssets

\* What a call would return from the entries of its own input alone.
OwnManifest(c) == parseAssets(NewLoadedAssets, calls[c].assets)

\* Calls c and d were in flight at the same time: neither had ended when
\* the other was made.
InFlightTogether(c, d) ==
    /\ c # d
    /\ calls[c].pc # "idle"
    /\ calls[d].pc # "idle"
    /\ d \notin calls[c].prior
    /\ c \notin calls[d].prior

\* C11: when two loadLPK calls on the same loader are in flight at the same
\* time, each call's returned manifest holds only the entries and metadata
\* of its own input.
C11_ConcurrentCallsIsolated ==
    \A c, d \in CallIds :
        (/\ InFlightTogether(c, d)
         /\ calls[c].pc = "done"
         /\ calls[d].pc = "done")
            => returned[c] = OwnManifest(c)

\* C12: the manifest returned by a completed call is never mutated
\* afterwards: its models, materials and metadata stay what they were when
\* the call returned.
C12_ReturnedNeverMutated ==
    \A c \in CallIds :
        calls[c].pc = "done"
            => /\ returnedManifest(c).models = returned[c].models
               /\ returnedManifest(c).materials = returned[c].materials
               /\ returnedManifest(c).metadata = returned[c].metadata


\* The entries of an archive that are not directories, in order.
RECURSIVE NonDirs(_)
NonDirs(fs) ==
    IF fs = <<>> THEN <<>>
    ELSE (IF Head(fs).dir THEN <<>> ELSE <<Head(fs)>>) \o NonDirs(Tail(fs))

NotEncrypted(asset) == ~asset.encrypted

LoadZipContentsResolved(c) == calls[c].pc \in {"zipLoaded", "parsed", "done"}

\* C22: an entry whose extraction fails never aborts loadZipContents: the
\* call throws only for a short file, a missing JSZip or a rejected
\* loadAsync; the failed entry is held as a placeholder with encrypted set,
\* every other entry with its bytes; and parseAssets adds nothing for a
\* placeholder.
C22_PlaceholderForFailedEntry ==
    \A c \in CallIds :
        /\ calls[c].pc = "thrown" =>
             \/ ~jszip
             \/ Len(calls[c].input.header) < 8
             \/ ~calls[c].input.zip.ok
        /\ LoadZipContentsResolved(c) =>
             LET fs == NonDirs(calls[c].input.zip.files)
                 assets == calls[c].assets
             IN  /\ Len(assets) = Len(fs)
                 /\ \A i \in 1 .. Len(fs) :
                      /\ assets[i].name = fs[i].name
                      /\ assets[i].encrypted = ~fs[i].readable
                      /\ fs[i].readable => assets[i].data = fs[i].data
                 /\ parseAssets(NewLoadedAssets, assets)
                      = parseAssets(NewLoadedAssets,
                                    SelectSeq(assets, NotEncrypted))

C22_Witness ==
    \E c \in CallIds :
        /\ calls[c].pc = "done"
        /\ \E i \in 1 .. Len(calls[c].assets) :
             /\ calls[c].assets[i].encrypted
             /\ EndsWith(calls[c].assets[i].name, SuffixLand)
        /\ \E i \in 1 .. Len(calls[c].assets) : ~calls[c].assets[i].encrypted
        /\ returned[c].models = <<>>


\* The assets the loader holds: the entries of its four lists, and the
\* metadata when there is one.
AssetsLoaded(la) ==
    Len(la.models) + Len(la.textures) + Len(la.materials)
      + Len(la.animations) + (IF la.metadata.type # "null" THEN 1 ELSE 0)

\* C30: whatever loadLPK calls were made, the totalAssets that
\* getAssetSummary() returns is the number of assets the loader holds.
C30_TotalAssetsCounts ==
    getAssetSummary(loadedAssets).totalAssets = AssetsLoaded(loadedAssets)


(***************************************************************************)
(* parseMetaFile called on its own                                         *)
(***************************************************************************)

MaxMetaLen == 5       \* bytes of a generated .meta content

\* The two ends of printable ASCII and their neighbours; no text made of
\* these bytes is JSON.
MetaBytes == {31, 32, 126, 127}

\* n runs 'AAAB', 'AAAC', ... with a NUL byte between two runs and none
\* behind the last.
RECURSIVE ManyRuns(_)
ManyRuns(n) ==
    IF n = 0 THEN <<>>
    ELSE IF n = 1 THEN <<65, 65, 65, 66>>
    ELSE ManyRuns(n - 1) \o <<0, 65, 65, 65, 65 + n>>

MetaInputs ==
    { [data |-> d, json |-> FALSE] : d \in SeqsUpTo(MetaBytes, MaxMetaLen) }
    \cup { [data |-> ManyRuns(20), json |-> FALSE],
           [data |-> ManyRuns(21), json |-> FALSE],
           [data |-> ManyRuns(21) \o <<0>>, json |-> FALSE],
           [data |-> <<123, 125>>, json |-> TRUE],            \* {}
           [data |-> <<91, 49, 93>>, json |-> TRUE] }         \* [1]

InitMeta ==
    /\ callee = "none"
    /\ \E asset \in MetaInputs : args = <<asset>>
    /\ retval = <<>>
    /\ IdleGame
    /\ Idle1
    /\ IdleScan
    /\ Idle2

\* loader.parseMetaFile(data)
ParseMetaFile ==
    /\ callee = "none"
    /\ callee' = "parseMetaFile"
    /\ retval' = parseMetaFile(args[1])
    /\ UNCHANGED <<args, vars1, varsScan, vars2, varsGame>>

NextMeta == ParseMetaFile

SpecMeta == InitMeta /\ [][NextMeta]_vars

(***************************************************************************)
(* Properties of parseMetaFile, checked under SpecMeta                     *)
(***************************************************************************)

Printable(b) == b >= 32 /\ b <= 126

\* The places where a maximal run of printable bytes starts, and where the
\* run that starts at a ends.
RunStarts(data) ==
    { a \in 1 .. Len(data) :
        Printable(data[a]) /\ (a = 1 \/ ~Printable(data[a - 1])) }
RunEnd(data, a) ==
    CHOOSE b \in a .. Len(data) :
        /\ \A k \in a .. b : Printable(data[k])
        /\ b = Len(data) \/ ~Printable(data[b + 1])

\* The maximal runs of at least 4 printable bytes, in order of appearance.
LongRunStarts(data) ==
    { a \in RunStarts(data) : RunEnd(data, a) - a + 1 >= 4 }
LongRun(data, k) ==
    LET a == CHOOSE x \in LongRunStarts(data) :
                 Cardinality({y \in LongRunStarts(data) : y < x}) = k - 1
    IN  SubSeq(data, a, RunEnd(data, a))

\* C23: parseMetaFile returns the JSON value of content that is JSON, and
\* else a binary_meta descriptor whose possibleStrings are the first 20 (at
\* most) maximal runs of printable ASCII of length >= 4, in order, a run
\* that ends with the data included.
C23_MetaJsonOrStrings ==
    callee = "parseMetaFile" =>
        LET asset == args[1] IN
        IF asset.json THEN retval = [type |-> "json", json |-> asset.data]
        ELSE /\ retval.type = "binary_meta"
             /\ retval.possibleStrings
                  = [k \in 1 .. Min(20, Cardinality(LongRunStarts(asset.data)))
                       |-> LongRun(asset.data, k)]

C23_Witness ==
    /\ callee = "parseMetaFile"
    /\ retval.type = "binary_meta"
    /\ Len(retval.possibleStrings) = 20
    /\ args[1].data = ManyRuns(21)


(***************************************************************************)
(* The cube game: Cube and Game of the main game script                    *)
(*                                                                         *)
(* Each event listener, each timeout callback and each animation frame     *)
(* runs to completion as one step.  Positions, rotations, colours and the  *)
(* camera are left out: which cube a click hits (findClickedCube) is any   *)
(* clickable cube of the list, or none.                                    *)
(***************************************************************************)

InitialCubes == 2     \* cubes made by initializeCubes (15 in the script)
AddedCubes == 1       \* cubes made by addMoreCubes (5 in the script)
MaxCubeIds == 5       \* cubes constructed in one run

\* clientX / clientY of the mouse events generated.
Points ==
    { [x |-> 0, y |-> 0], [x |-> 4, y |-> 4], [x |-> 5, y |-> 0],
      [x |-> 0, y |-> 5] }

Abs(n) == IF n < 0 THEN 0 - n ELSE n

\* new Cube(x, y, z)
newCube(id) == [id |-> id, alive |-> TRUE, clickable |-> TRUE]

\* destroy() that leaves the cube clickable.
destroyStillClickable(cube) == [cube EXCEPT !.alive = FALSE]

\* Cube.destroy()
destroy(cube) == [cube EXCEPT !.alive = FALSE, !.clickable = FALSE]

\* n calls of addRandomCube() on the list cs.
addRandomCubes(cs, first, n) ==
    cs \o [k \in 1 .. n |-> newCube(first + k - 1)]

\* The test of the mouseup listener: "a click, not a drag".
isClick(m, e) ==
    /\ m.isDown
    /\ Abs(e.x - m.lastX) < 5
    /\ Abs(e.y - m.lastY) < 5

\* The cubes findClickedCube looks at: it skips a cube that is not clickable.
clickableCubes(cs) == {i \in 1 .. Len(cs) : cs[i].clickable}

IsAlive(cube) == cube.alive

\* The timeout callback that removes nothing.
removeNothing(cs) == cs

\* The timeout callback of destroyCube: this.cubes.filter(c => c.alive)
removeDestroyed(cs) == SelectSeq(cs, IsAlive)

\* The cubes Game.update changes: Cube.update returns at once when the
\* cube is not alive.
updatedCubes(cs) == {cs[i].id : i \in {k \in 1 .. Len(cs) : cs[k].alive}}

\* The cubes Game.render draws: `if (!cube.alive) continue`.
renderedCubes(cs) == {cs[i].id : i \in {k \in 1 .. Len(cs) : cs[k].alive}}

Ids(cs) == {cs[i].id : i \in 1 .. Len(cs)}

\* new Game(): the listeners are set up, initializeCubes() makes the first
\* cubes and gameLoop() runs the first frame.
InitGame ==
    /\ cubes = addRandomCubes(<<>>, 1, InitialCubes)
    /\ score = 0
    /\ mouse = [isDown |-> FALSE, lastX |-> 0, lastY |-> 0]
    /\ timers = 0
    /\ nextId = InitialCubes + 1
    /\ destroyed = {}
    /\ scored = [id \in 1 .. MaxCubeIds |-> 0]
    /\ pressAt = NoPoint
    /\ lastUp = NoUp
    /\ Idle1
    /\ IdleScan
    /\ Idle2
    /\ IdleCallee

UnchangedGame == UNCHANGED <<vars1, varsScan, vars2, varsCall>>

\* The mousedown listener of the canvas.
MouseDown(e) ==
    /\ mouse' = [isDown |-> TRUE, lastX |-> e.x, lastY |-> e.y]
    /\ pressAt' = e
    /\ lastUp' = NoUp
    /\ UNCHANGED <<cubes, score, timers, nextId, destroyed, scored>>
    /\ UnchangedGame

\* The mousemove listener of the canvas, the button held down: the camera
\* turns and lastX, lastY follow the pointer.
MouseMove(e) ==
    /\ mouse.isDown
    /\ mouse' = [mouse EXCEPT !.lastX = e.x, !.lastY = e.y]
    /\ UNCHANGED <<cubes, score, timers, nextId, destroyed, scored, pressAt,
                   lastUp>>
    /\ UnchangedGame


\* handleClick(e): findClickedCube gives a clickable cube or null; a cube
\* found goes to destroyCube, which destroys it, adds 10 to the score and
\* sets the 100 ms timeout.  hit is the cube's place in the list, 0 for null.
handleClick(hit) ==
    IF hit = 0
    THEN UNCHANGED <<cubes, score, timers, destroyed, scored>>
    ELSE /\ cubes' = [cubes EXCEPT ![hit] = destroy(@)]
         /\ score' = score + 10
         /\ timers' = timers + 1
         /\ destroyed' = destroyed \cup {cubes[hit].id}
         /\ scored' = [scored EXCEPT ![cubes[hit].id] = @ + 1]

\* The mouseup listener of the canvas (the listener of the document runs
\* behind it and clears isDown once more).  lastUp records whether
\* handleClick ran, whether the pointer was 5 pixels or more from where it
\* was pressed, and the cube destroyed.
MouseUp(e) ==
    /\ score <= 10 * MaxCubeIds
    /\ \E hit \in {0} \cup clickableCubes(cubes) :
         /\ IF isClick(mouse, e)
            THEN handleClick(hit)
            ELSE /\ hit = 0
                 /\ UNCHANGED <<cubes, score, timers, destroyed, scored>>
         /\ lastUp' = [handled |-> isClick(mouse, e),
                       far |-> /\ mouse.isDown
                               /\ \/ Abs(e.x - pressAt.x) >= 5
                                  \/ Abs(e.y - pressAt.y) >= 5]
    /\ mouse' = [mouse EXCEPT !.isDown = FALSE]
    /\ pressAt' = NoPoint
    /\ UNCHANGED nextId
    /\ UnchangedGame

\* A mouseup outside the canvas: the listener of the document alone.
DocumentMouseUp ==
    /\ mouse.isDown
    /\ mouse' = [mouse EXCEPT !.isDown = FALSE]
    /\ pressAt' = NoPoint
    /\ UNCHANGED <<cubes, score, timers, nextId, destroyed, scored, lastUp>>
    /\ UnchangedGame

\* The reset button: resetGame().
ResetGame ==
    /\ nextId + InitialCubes - 1 <= MaxCubeIds
    /\ score' = 0
    /\ cubes' = addRandomCubes(<<>>, nextId, InitialCubes)
    /\ nextId' = nextId + InitialCubes
    /\ destroyed' = {}
    /\ UNCHANGED <<mouse, timers, scored, pressAt, lastUp>>
    /\ UnchangedGame

\* The add-cubes button: addMoreCubes().
AddMoreCubes ==
    /\ nextId + AddedCubes - 1 <= MaxCubeIds
    /\ cubes' = addRandomCubes(cubes, nextId, AddedCubes)
    /\ nextId' = nextId + AddedCubes
    /\ UNCHANGED <<score, mouse, timers, destroyed, scored, pressAt, lastUp>>
    /\ UnchangedGame

\* A timeout set by destroyCube runs.
TimerFires ==
    /\ timers > 0
    /\ timers' = timers - 1
    /\ cubes' = removeDestroyed(cubes)
    /\ UNCHANGED <<score, mouse, nextId, destroyed, scored, pressAt, lastUp>>
    /\ UnchangedGame

\* An animation frame: gameLoop runs update, on updatedCubes(cubes), and
\* render, on renderedCubes(cubes).  The rotation and scale that update
\* changes are left out of the state, so a frame changes nothing here.
Frame ==
    /\ UNCHANGED <<cubes, score, mouse, timers, nextId, destroyed, scored,
                   pressAt, lastUp>>
    /\ UnchangedGame

NextGame ==
    \/ \E e \in Points : MouseDown(e)
    \/ \E e \in Points : MouseMove(e)
    \/ \E e \in Points : MouseUp(e)
    \/ DocumentMouseUp
    \/ ResetGame
    \/ AddMoreCubes
    \/ TimerFires
    \/ Frame

SpecGame == InitGame /\ [][NextGame]_vars

\* The browser runs a timeout that is due: a pending timer fires.
SpecGameFair == SpecGame /\ WF_vars(TimerFires)


(***************************************************************************)
(* Properties of the cube game, checked under SpecGame and SpecGameFair    *)
(***************************************************************************)

\* C24: a mouseup runs handleClick only when the pointer is less than 5
\* pixels, in x and in y, from where the button was pressed: a release 5
\* pixels or more from the press, whatever mousemove events lie between,
\* destroys no cube and leaves the score.
C24_DragNeverClicks == lastUp.far => ~lastUp.handled

DeadInList(id) ==
    \E i \in 1 .. Len(cubes) : cubes[i].id = id /\ ~cubes[i].alive

\* C25: the score is 10 times the number of cubes destroyed since the last
\* reset; no cube adds to the score twice; a cube is destroyed only when it
\* is clickable, and from then on it is neither alive nor clickable.
C25_ScoreCountsDestroyed ==
    /\ [](score = 10 * Cardinality(destroyed))
    /\ [](\A id \in 1 .. MaxCubeIds : scored[id] <= 1)
    /\ [](\A i \in 1 .. Len(cubes) :
            scored[cubes[i].id] > 0
                => ~cubes[i].alive /\ ~cubes[i].clickable)
    /\ [][\A id \in 1 .. MaxCubeIds :
            scored'[id] # scored[id] =>
                \E i \in 1 .. Len(cubes) :
                    /\ cubes[i].id = id
                    /\ cubes[i].clickable
                    /\ cubes[i].alive]_vars

C25_Witness ==
    /\ score = 10
    /\ Cardinality(destroyed) = 1
    /\ \E id \in 1 .. MaxCubeIds : scored[id] = 1 /\ id \notin destroyed
    /\ \E id \in destroyed : DeadInList(id)

\* C26: a destroyed cube is in time removed from Game.cubes (by its timer,
\* or with the whole list by a reset); while it is in the list it is not
\* rendered, not updated and not among the cubes a click can select; and a
\* timer that fires removes no live cube from the list.
C26_DestroyedCubeRemoved ==
    /\ \A id \in 1 .. MaxCubeIds : DeadInList(id) ~> (id \notin Ids(cubes))
    /\ [](\A i \in 1 .. Len(cubes) :
            ~cubes[i].alive =>
                /\ cubes[i].id \notin renderedCubes(cubes)
                /\ cubes[i].id \notin updatedCubes(cubes)
                /\ i \notin clickableCubes(cubes))
    /\ [][timers' < timers =>
            /\ \A i \in 1 .. Len(cubes) :
                 cubes[i].alive => \E j \in 1 .. Len(cubes') : cubes'[j] = cubes[i]
            /\ \A j \in 1 .. Len(cubes') : cubes'[j].alive]_vars

C26_Witness ==
    /\ timers = 1
    /\ destroyed = {}
    /\ Cardinality({id \in 1 .. MaxCubeIds : scored[id] = 1}) = 2
    /\ Len(cubes) = InitialCubes + AddedCubes


(***************************************************************************)
(* First LPKLoader class: getAsset                                         *)
(*                                                                         *)
(* lpkData.assets is given by                                              *)
(*   hasModels, hasTextures, hasData   whether the member is there,        *)
(*   models, textures                  the lists, entries with a filename, *)
(*   data                              the own properties of the data map. *)
(* The data map is a plain object, made by `{}` or by JSON.parse: reading  *)
(* a property it does not own gives what Object.prototype has under that   *)
(* name, and undefined when Object.prototype has nothing.                  *)
(***************************************************************************)

MaxListed == 2        \* entries of a generated models or textures list

NameConstructor ==                 \* 'constructor'
    <<99, 111, 110, 115, 116, 114, 117, 99, 116, 111, 114>>

\* Property names every plain object inherits ('constructor' among them).
ObjectPrototypeNames == {NameConstructor}

Undefined == [kind |-> "undefined"]
Null == [kind |-> "null"]
Inherited(name) == [kind |-> "inherited", name |-> name]

\* array.find(e => e.filename === name): the first match, or undefined.
RECURSIVE find(_, _)
find(list, name) ==
    IF list = <<>> THEN Undefined
    ELSE IF Head(list).filename = name THEN Head(list)
    ELSE find(Tail(list), name)

\* object[name] on a plain object.
getProperty(map, name) ==
    IF name \in DOMAIN map THEN map[name]
    ELSE IF name \in ObjectPrototypeNames THEN Inherited(name)
    ELSE Undefined

\* getAsset(lpkData, name), lpkData.assets given
getAsset(assets, name) ==
    IF assets.hasModels /\ find(assets.models, name) # Undefined
    THEN find(assets.models, name)
    ELSE IF assets.hasTextures /\ find(assets.textures, name) # Undefined
    THEN find(assets.textures, name)
    ELSE IF assets.hasData THEN getProperty(assets.data, name)
    ELSE Null

AssetNames == {NameX, NameObj, NameConstructor}

\* A list whose entries have the given filenames; each entry is marked with
\* its list and its place in it.
Listed(list, names) ==
    [i \in 1 .. Len(names) |->
        [kind |-> "entry", filename |-> names[i], list |-> list, place |-> i]]

\* A data map with the given keys.
DataMap(keys) == [k \in keys |-> [kind |-> "data", key |-> k]]

AssetsInputs ==
    { [hasModels |-> hm, models |-> Listed("models", ms),
       hasTextures |-> ht, textures |-> Listed("textures", ts),
       hasData |-> hd, data |-> DataMap(keys)] :
        hm \in BOOLEAN, ht \in BOOLEAN, hd \in BOOLEAN,
        ms \in SeqsUpTo(AssetNames, MaxListed),
        ts \in SeqsUpTo(AssetNames, MaxListed),
        keys \in SUBSET AssetNames }

\* A member that is not there has no content.
WellFormedAssets(a) ==
    /\ ~a.hasModels => a.models = <<>>
    /\ ~a.hasTextures => a.textures = <<>>
    /\ ~a.hasData => a.data = EmptyMap

InitGetAsset ==
    /\ callee = "none"
    /\ \E a \in AssetsInputs, name \in AssetNames :
         /\ WellFormedAssets(a)
         /\ args = <<a, name>>
    /\ retval = <<>>
    /\ IdleGame
    /\ Idle1
    /\ IdleScan
    /\ Idle2

\* loader.getAsset(lpkData, name)
GetAsset ==
    /\ callee = "none"
    /\ callee' = "getAsset"
    /\ retval' = getAsset(args[1], args[2])
    /\ UNCHANGED <<args, vars1, varsScan, vars2, varsGame>>

NextGetAsset == GetAsset

SpecGetAsset == InitGetAsset /\ [][NextGetAsset]_vars

(***************************************************************************)
(* Properties of getAsset, checked under SpecGetAsset                      *)
(***************************************************************************)

\* The first place of the list whose entry has the filename, 0 if none.
FirstNamed(list, name) ==
    IF \E i \in 1 .. Len(list) : list[i].filename = name
    THEN CHOOSE i \in 1 .. Len(list) :
           /\ list[i].filename = name
           /\ \A j \in 1 .. i - 1 : list[j].filename # name
    ELSE 0

\* C28: getAsset returns the first model whose filename is the name; if
\* there is none, the first such texture; if there is none, the entry of
\* the data map under that key; and when nothing matches, undefined if the
\* data map exists and null if it does not.
C28_GetAssetLookup ==
    callee = "getAsset" =>
        LET a == args[1]
            name == args[2]
            m == FirstNamed(a.models, name)
            t == FirstNamed(a.textures, name)
        IN  IF m > 0 THEN retval = a.models[m]
            ELSE IF t > 0 THEN retval = a.textures[t]
            ELSE IF a.hasData /\ name \in DOMAIN a.data
            THEN retval = a.data[name]
            ELSE IF a.hasData THEN retval = Undefined
            ELSE retval = Null


(***************************************************************************)
(* Second LPKLoader class: parseAssets called on a loader                  *)
(*                                                                         *)
(* args is the `assets` object as the list of its entries in the order of  *)
(* Object.entries, and what this.loadedAssets holds at the call.           *)
(***************************************************************************)

MaxAssets == 2        \* entries of a generated `assets` object

NameLand2     == <<97, 46, 108, 97, 110, 100>>           \* 'a.land'
NameLandUpper == <<48, 46, 76, 65, 78, 68>>              \* '0.LAND'
NameMeta2     == <<97, 46, 109, 101, 116, 97>>           \* 'a.meta'

\* An entry as loadZipContents stores it for a file that was read.
ReadAsset(name, json, data) ==
    [name |-> name, encrypted |-> FALSE, data |-> data, size |-> Len(data),
     json |-> json]

\* An entry with neither data nor the encrypted mark.
BareAsset(name) == [name |-> name, encrypted |-> FALSE]

AssetEntries ==
    { ReadAsset(NameMeta, TRUE, <<123, 125>>),
      ReadAsset(NameMeta2, FALSE, <<0, 76, 80, 75, 49, 0>>),
      ReadAsset(NameLand, FALSE, <<1, 2>>),
      ReadAsset(NameLand2, FALSE, <<7>>),
      ReadAsset(NameEditor, FALSE, <<3, 4, 5>>),
      ReadAsset(NameLandUpper, FALSE, <<6>>),
      ReadAsset(NameTxt, FALSE, <<5>>),
      extractedAsset(ZipFile(NameLand, FALSE, FALSE, FALSE, <<4>>)),
      BareAsset(NameLand),
      BareAsset(NameMeta),
      BareAsset(NameEditor) }

\* What this.loadedAssets holds at the call: nothing, or an earlier load.
PriorLoaded ==
    { NewLoadedAssets,
      parseAssets(NewLoadedAssets,
                  <<ReadAsset(NameMeta, TRUE, <<91, 93>>),
                    ReadAsset(NameLand, FALSE, <<9>>),
                    ReadAsset(NameEditor, FALSE, <<8>>)>>) }

InitParseAssets ==
    /\ callee = "none"
    /\ \E assets \in SeqsUpTo(AssetEntries, MaxAssets), la \in PriorLoaded :
         /\ DistinctNames(assets)
         /\ args = <<la, assets>>
    /\ retval = <<>>
    /\ IdleGame
    /\ Idle1
    /\ IdleScan
    /\ Idle2

\* loader.parseAssets(assets); retval is this.loadedAssets after the call.
ParseAssetsCall ==
    /\ callee = "none"
    /\ callee' = "parseAssets"
    /\ retval' = parseAssets(args[1], args[2])
    /\ UNCHANGED <<args, vars1, varsScan, vars2, varsGame>>

NextParseAssets == ParseAssetsCall

SpecParseAssets == InitParseAssets /\ [][NextParseAssets]_vars

(***************************************************************************)
(* Properties of parseAssets, checked under SpecParseAssets                *)
(***************************************************************************)

\* The entries the loop can parse: those that are not marked encrypted and
\* have data.
Parsable(a) == ~a.encrypted /\ "data" \in DOMAIN a

IsLandEntry(a) == Parsable(a) /\ EndsWith(a.name, SuffixLand)
IsEditorEntry(a) == Parsable(a) /\ EndsWith(a.name, SuffixEditor)
IsMetaEntry(a) == Parsable(a) /\ EndsWith(a.name, SuffixMeta)

\* C29: after parseAssets, the models are those of before followed by one
\* model for each .land entry, in order, of size the entry's byte length;
\* the materials likewise for the .editor entries; the metadata is that of
\* the last .meta entry, or what it was when there is none; textures and
\* animations stay.  Entries of any other name (of '.LAND' too) add nothing,
\* and an entry on which parsing throws neither adds anything nor keeps the
\* entries behind it from being parsed.
C29_ParseAssetsBySuffix ==
    callee = "parseAssets" =>
        LET before == args[1]
            lands == SelectSeq(args[2], IsLandEntry)
            editors == SelectSeq(args[2], IsEditorEntry)
            metas == SelectSeq(args[2], IsMetaEntry)
        IN  /\ retval.models
                 = before.models
                     \o [i \in 1 .. Len(lands) |->
                           [type |-> "land_data", size |-> Len(lands[i].data),
                            format |-> "unknown", rawData |-> lands[i].data]]
            /\ retval.materials
                 = before.materials
                     \o [i \in 1 .. Len(editors) |->
                           [type |-> "editor_data",
                            size |-> Len(editors[i].data),
                            format |-> "unknown", rawData |-> editors[i].data]]
            /\ retval.metadata
                 = IF metas = <<>> THEN before.metadata
                   ELSE parseMetaFile(metas[Len(metas)])
            /\ retval.textures = before.textures
            /\ retval.animations = before.animations

\* An entry on which parsing throws, with a .land entry behind it that is
\* parsed.
C29_Witness ==
    /\ callee = "parseAssets"
    /\ Len(args[2]) = 2
    /\ parseThrows(args[2][1])
    /\ IsLandEntry(args[2][2])
    /\ Len(retval.models) = Len(args[1].models) + 1

====
